---- MODULE Spec2Model ----
(***************************************************************************)
(* branch-deploy: the initial phase run() (src/main.js), the environment   *)
(* resolver environmentTargets() (functions/environment-targets.js) and    *)
(* the completion step postDeploy() (functions/post-deploy.js).            *)
(*                                                                         *)
(* JavaScript strings that the code slices (replace, trim, split, match)   *)
(* are sequences of one-character strings; Text() turns such a sequence    *)
(* into the plain string that is persisted, output or put into a message.  *)
(* Emoji of the message templates are written as ASCII names.              *)
(***************************************************************************)
EXTENDS Integers, Sequences, FiniteSets, TLC

(***************************************************************************)
(* Bounds                                                                  *)
(***************************************************************************)
\* ids handed out by the platform (comment, reaction, deployment): 1..MaxId
MaxId ==
    2

\* entries of the environment_targets input of a direct call of the resolver
MaxTargets ==
    3

\* pairs of the environment_urls input of a direct call of findEnvironmentUrl
MaxPairs ==
    3

\* characters of the custom message of a direct call of the unescaping
MaxMessageLen ==
    4

(***************************************************************************)
(* JavaScript values                                                       *)
(***************************************************************************)
\* undefined / null as seen by `!x`, `typeof x === 'undefined'`
Undefined ==
    "<undefined>"

\* a key of core.saveState / core.setOutput that was never written
Unset ==
    "<unset>"

\* core.setFailed was not called
NotFailed ==
    "<not failed>"

\* @actions/core toCommandValue: undefined and null are written as ''
ToCommandValue(v) ==
    IF v = Undefined THEN "" ELSE v

\* `!x || x.length === 0` of postDeploy's input checks
Missing(x) ==
    x = Undefined \/ x = ""

(***************************************************************************)
(* Strings as sequences of characters                                      *)
(***************************************************************************)
RECURSIVE Text(_)
Text(s) ==
    IF s = <<>> THEN "" ELSE Head(s) \o Text(Tail(s))

WhiteSpace ==
    {" ", "\t", "\n"}

RECURSIVE TrimStart(_)
TrimStart(s) ==
    IF s # <<>> /\ Head(s) \in WhiteSpace THEN TrimStart(Tail(s)) ELSE s

RECURSIVE TrimEnd(_)
TrimEnd(s) ==
    IF s # <<>> /\ s[Len(s)] \in WhiteSpace
    THEN TrimEnd(SubSeq(s, 1, Len(s) - 1))
    ELSE s

\* String.prototype.trim
Trim(s) ==
    TrimEnd(TrimStart(s))

\* p occurs in s at position i
MatchAt(p, s, i) ==
    /\ i + Len(p) - 1 <= Len(s)
    /\ \A k \in 1..Len(p) : s[i + k - 1] = p[k]

\* String.prototype.indexOf, 1-based; 0 when p does not occur
IndexOf(p, s) ==
    IF \E i \in 1..(Len(s) + 1) : MatchAt(p, s, i)
    THEN CHOOSE i \in 1..(Len(s) + 1) :
             /\ MatchAt(p, s, i)
             /\ \A j \in 1..(i - 1) : ~MatchAt(p, s, j)
    ELSE 0

\* String.prototype.replace(p, r) with a string pattern: the first occurrence only
Replace(s, p, r) ==
    LET i == IndexOf(p, s)
    IN  IF i = 0
        THEN s
        ELSE SubSeq(s, 1, i - 1) \o r \o SubSeq(s, i + Len(p), Len(s))

\* String.prototype.includes
Includes(s, p) ==
    IndexOf(p, s) # 0

\* String.prototype.split(c) for a one-character separator: ''.split(',') is ['']
RECURSIVE Split(_, _)
Split(s, c) ==
    LET i == IndexOf(<<c>>, s)
    IN  IF i = 0
        THEN <<s>>
        ELSE <<SubSeq(s, 1, i - 1)>> \o Split(SubSeq(s, i + 1, Len(s)), c)

\* Array.prototype.join(c)
RECURSIVE Join(_, _)
Join(list, c) ==
    IF list = <<>> THEN <<>>
    ELSE IF Len(list) = 1 THEN list[1]
    ELSE list[1] \o <<c>> \o Join(Tail(list), c)

\* Array.prototype.map(x => x.trim())
MapTrim(list) ==
    [i \in 1..Len(list) |-> Trim(list[i])]

(***************************************************************************)
(* Action inputs (core.getInput) and the literals of the code              *)
(***************************************************************************)
trigger ==
    <<".","d","e","p","l","o","y">>

help_trigger ==
    <<".","h","e","l","p">>

noop_trigger ==
    <<"n","o","o","p">>

stable_branch ==
    <<"m","a","i","n">>

\* the `environment` input: the default environment
environment ==
    <<"p","r","o","d","u","c","t","i","o","n">>

ToPrefix ==
    <<"t","o"," ">>

DisabledLiteral ==
    <<"d","i","s","a","b","l","e","d">>

HttpScheme ==
    <<"h","t","t","p",":","/","/">>

HttpsScheme ==
    <<"h","t","t","p","s",":","/","/">>

\* values of the environment_targets input
TargetsDefault ==
    <<"p","r","o","d","u","c","t","i","o","n",",","d","e","v","e","l","o","p","m","e","n","t",",","s","t","a","g","i","n","g">>

TargetsSpaced ==
    <<"p","r","o","d","u","c","t","i","o","n",","," ","s","t","a","g","i","n","g">>

TargetsEmpty ==
    <<>>

EnvironmentTargetsInputs ==
    {TargetsDefault, TargetsSpaced, TargetsEmpty}

\* values of the environment_urls input
UrlsBlank ==
    <<>>

UrlsProd ==
    <<"p","r","o","d","u","c","t","i","o","n","|","h","t","t","p","s",":","/","/","p",".","i","o">>

UrlsStagingDisabled ==
    <<"s","t","a","g","i","n","g","|","d","i","s","a","b","l","e","d">>

UrlsNoBar ==
    <<"p","r","o","d","u","c","t","i","o","n">>

UrlsBadThenGood ==
    <<"p","r","o","d","u","c","t","i","o","n","|","f","t","p",":","/","/","p",".","i","o",",","p","r","o","d","u","c","t","i","o","n","|","h","t","t","p",":","/","/","p",".","i","o">>

EnvironmentUrlsInputs ==
    {UrlsBlank, UrlsProd, UrlsStagingDisabled, UrlsNoBar, UrlsBadThenGood}

\* comment bodies (context.payload.comment.body)
BodyDeploy ==
    <<".","d","e","p","l","o","y">>

BodyNoop ==
    <<".","d","e","p","l","o","y"," ","n","o","o","p">>

BodyStable ==
    <<".","d","e","p","l","o","y"," ","m","a","i","n">>

BodyToStaging ==
    <<".","d","e","p","l","o","y"," ","t","o"," ","s","t","a","g","i","n","g">>

BodyStaging ==
    <<".","d","e","p","l","o","y"," ","s","t","a","g","i","n","g"," ">>

BodyUnknown ==
    <<".","d","e","p","l","o","y"," ","t","o"," ","q","a">>

BodyHelp ==
    <<".","h","e","l","p">>

BodyBoth ==
    <<".","d","e","p","l","o","y"," ",".","h","e","l","p">>

Bodies ==
    {BodyDeploy, BodyNoop, BodyStable, BodyToStaging, BodyStaging, BodyUnknown,
     BodyHelp, BodyBoth}

(***************************************************************************)
(* environment-targets.js                                                  *)
(***************************************************************************)
\* one pass of the loop body of onDeploymentChecks for `target`:
\* "target" (return target), "default" (return environment) or "none" (next target)
TargetCheck(target, body, trigger_, noop_trigger_, stable_branch_) ==
    LET noopPhrase   == trigger_ \o <<" ">> \o noop_trigger_
        stablePhrase == trigger_ \o <<" ">> \o stable_branch_
        toTarget     == ToPrefix \o target
    IN  IF Trim(Replace(body, trigger_, <<>>)) = target THEN "target"
        ELSE IF Trim(Replace(body, noopPhrase, <<>>)) = target THEN "target"
        ELSE IF Trim(Replace(body, trigger_, <<>>)) = toTarget THEN "target"
        ELSE IF Trim(Replace(body, noopPhrase, <<>>)) = toTarget THEN "target"
        ELSE IF Trim(Replace(body, stablePhrase, <<>>)) = toTarget THEN "target"
        ELSE IF Trim(Replace(body, stablePhrase, <<>>)) = target THEN "target"
        ELSE IF Trim(body) = trigger_ THEN "default"
        ELSE IF Trim(body) = noopPhrase THEN "default"
        ELSE IF Trim(body) = stablePhrase THEN "default"
        ELSE "none"

\* a match returns what the body names, not the configured entry
RECURSIVE onDeploymentChecksBodyText(_, _, _, _, _, _)
onDeploymentChecksBodyText(environment_targets_sanitized, body, trigger_, noop_trigger_, stable_branch_, environment_) ==
    IF environment_targets_sanitized = <<>>
    THEN [found |-> FALSE, value |-> <<>>]
    ELSE LET target == Head(environment_targets_sanitized)
             r == TargetCheck(target, body, trigger_, noop_trigger_, stable_branch_)
         IN  IF r = "target"
             THEN [found |-> TRUE, value |-> Trim(Replace(body, trigger_, <<>>))]
             ELSE IF r = "default" THEN [found |-> TRUE, value |-> environment_]
             ELSE onDeploymentChecksBodyText(Tail(environment_targets_sanitized),
                                             body, trigger_, noop_trigger_,
                                             stable_branch_, environment_)

\* onDeploymentChecks: [found |-> FALSE] is the JavaScript `false`
RECURSIVE onDeploymentChecks(_, _, _, _, _, _)
onDeploymentChecks(environment_targets_sanitized, body, trigger_, noop_trigger_, stable_branch_, environment_) ==
    IF environment_targets_sanitized = <<>>
    THEN [found |-> FALSE, value |-> <<>>]
    ELSE LET target == Head(environment_targets_sanitized)
             r == TargetCheck(target, body, trigger_, noop_trigger_, stable_branch_)
         IN  IF r = "target" THEN [found |-> TRUE, value |-> target]
             ELSE IF r = "default" THEN [found |-> TRUE, value |-> environment_]
             ELSE onDeploymentChecks(Tail(environment_targets_sanitized), body,
                                     trigger_, noop_trigger_, stable_branch_,
                                     environment_)

\* /^https?:\/\//
MatchesHttpSchema(url) ==
    MatchAt(HttpScheme, url, 1) \/ MatchAt(HttpsScheme, url, 1)

\* the loop of findEnvironmentUrl over environment_urls_array.
\* kind: "disabled" and "none" return null and save 'null'; "url" returns and
\* saves the url; "TypeError" is `undefined.match(...)` of a pair without '|'
RECURSIVE findEnvironmentUrlLoop(_, _)
findEnvironmentUrlLoop(environment_, environment_urls_array) ==
    IF environment_urls_array = <<>>
    THEN [kind |-> "none", url |-> <<>>]
    ELSE LET environment_url_array == Split(Trim(Head(environment_urls_array)), "|")
             rest == Tail(environment_urls_array)
         IN  IF environment_url_array[1] # environment_
             THEN findEnvironmentUrlLoop(environment_, rest)
             ELSE IF Len(environment_url_array) < 2
             THEN [kind |-> "TypeError", url |-> <<>>]
             ELSE IF environment_url_array[2] = DisabledLiteral
             THEN [kind |-> "disabled", url |-> <<>>]
             ELSE IF ~MatchesHttpSchema(environment_url_array[2])
             THEN findEnvironmentUrlLoop(environment_, rest)
             ELSE [kind |-> "url", url |-> environment_url_array[2]]

\* findEnvironmentUrl: kind "blank" returns null and saves nothing
findEnvironmentUrl(environment_, environment_urls) ==
    IF Trim(environment_urls) = <<>>
    THEN [kind |-> "blank", url |-> <<>>]
    ELSE findEnvironmentUrlLoop(environment_, Split(Trim(environment_urls), ","))

\* the value findEnvironmentUrl writes to the state and output key
\* environment_url (Unset: it writes nothing)
EnvironmentUrlSaved(found) ==
    CASE found.kind = "url" -> Text(found.url)
      [] found.kind \in {"disabled", "none"} -> "null"
      [] OTHER -> Unset

\* environment_targets.split(',').map(target => target.trim())
Sanitized(environment_targets) ==
    MapTrim(Split(environment_targets, ","))

(***************************************************************************)
(* The platform and what it answers                                        *)
(***************************************************************************)
Ids ==
    1..MaxId

\* context.actor
Actor ==
    "monalisa"

\* error.message of an error thrown by an external call
PlatformError ==
    "platform error"

\* error.message of reading a property of undefined
TypeErrorMessage ==
    "Cannot read properties of undefined"

\* error.message of calling the unbound identifier actionStatus
ReferenceErrorMessage ==
    "actionStatus is not defined"

\* what validPermissions returns instead of true
PermissionMessage ==
    "you do not have admin/write permissions to this repository"

\* messages of a rejecting precheck
PrecheckMessages ==
    {"CI checks have not passed", "reviews are required"}

\* createDeployment's 202 answer when the base branch was merged in first
AutoMergedMessage ==
    <<"A","u","t","o","-","m","e","r","g","e","d"," ","m","a","i","n">>

ConflictMessage ==
    <<"C","o","n","f","l","i","c","t">>

AutoMergedMarker ==
    <<"A","u","t","o","-","m","e","r","g","e","d">>

\* answers of prechecks(): {status, message, ref, sha, noopMode}
PrecheckResults ==
    [status : {TRUE}, message : {"ok"}, ref : {"feature", "main"},
     sha : {"abc123"}, noopMode : BOOLEAN]
    \cup
    [status : {FALSE}, message : PrecheckMessages, ref : {"feature", Undefined},
     sha : {Undefined}, noopMode : {FALSE}]

\* answers of octokit.rest.repos.createDeployment: {id?, message?}
\* (hasMessage FALSE: the answer carries no message property)
CreateDeployResults ==
    [id : {ToString(i) : i \in Ids}, hasMessage : {FALSE}, message : {<<>>}]
    \cup
    [id : {Undefined}, hasMessage : {TRUE},
     message : {AutoMergedMessage, ConflictMessage}]
    \cup
    [id : {Undefined}, hasMessage : {FALSE}, message : {<<>>}]
    \cup
    [id : {ToString(i) : i \in Ids}, hasMessage : {TRUE},
     message : {AutoMergedMessage}]

\* the `status` input of the completion phase
StatusInputs ==
    {"success", "failure", "cancelled", ""}

(***************************************************************************)
(* State                                                                   *)
(***************************************************************************)
VARIABLES
    entry,    \* "run": the action's two phases; otherwise the function called directly
    cfg,      \* the inputs and the event of the run
    pc,       \* where run() is
    local,    \* run()'s local variables
    state,    \* core.saveState / core.getState
    output,   \* core.setOutput
    failed,   \* core.setFailed's message
    warned,   \* core.warning was called with the no-match message
    calls,    \* the external calls made so far, in order
    ret,      \* what run() returned (what the function returned, when called directly)
    pd        \* the postDeploy call: its arguments, position and result

vars ==
    <<entry, cfg, pc, local, state, output, failed, warned, calls, ret, pd>>

StateKeys ==
    {"isPost", "actionsToken", "bypass", "comment_id", "reaction_id",
     "environment", "ref", "deployment_id", "noop", "environment_url"}

OutputKeys ==
    {"triggered", "type", "comment_id", "initial_reaction_id", "actor_handle",
     "environment", "ref", "sha", "noop", "continue", "deployment_id",
     "environment_url"}

\* core.getState: '' for a key never saved
GetState(k) ==
    IF state[k] = Unset THEN "" ELSE state[k]

\* one external call, as the platform sees it
NoCall ==
    [op |-> "-", outcome |-> "-", reaction_id |-> "-", message |-> <<>>,
     success |-> "-", ref |-> "-", status |-> "-", deployment_id |-> "-",
     environment |-> "-", environment_url |-> "-"]

Outcomes ==
    {"returned", "threw"}

\* run() has not returned yet
Running ==
    "<running>"

\* run() ended in its catch handler and returned nothing
ReturnedUndefined ==
    "<undefined result>"

NoPrecheck ==
    [status |-> FALSE, message |-> "-", ref |-> "-", sha |-> "-", noopMode |-> FALSE]

NoCreateDeploy ==
    [id |-> "-", hasMessage |-> FALSE, message |-> <<>>]

InitLocal ==
    [body |-> <<>>, isDeploy |-> FALSE, isHelp |-> FALSE, reaction_id |-> "-",
     validPermissionsRes |-> "-", environment |-> "-", environmentUrl |-> "-",
     environmentDetected |-> FALSE,
     precheckResults |-> NoPrecheck, createDeploy |-> NoCreateDeploy]

\* postDeploy has not been called (base: the length of the call log when it is)
NoPostDeploy ==
    [pc |-> "idle", comment_id |-> "-", reaction_id |-> "-", status |-> "-",
     customMessage |-> <<>>, ref |-> "-", noop |-> "-", deployment_id |-> "-",
     environment |-> "-", environment_url |-> "-",
     environment_url_in_comment |-> FALSE, error |-> "-", result |-> "-",
     base |-> 0]

RunConfigs ==
    [mergeDeployMode : BOOLEAN, commentPresent : BOOLEAN, body : Bodies,
     comment_id : {ToString(i) : i \in Ids},
     environment_targets : EnvironmentTargetsInputs,
     environment_urls : EnvironmentUrlsInputs]

(***************************************************************************)
(* main.js: run()                                                          *)
(***************************************************************************)
\* an external call appended to the log
Called(call) ==
    calls' = Append(calls, call)

\* the catch handler marks the run failed and leaves bypass as it was
CaughtWithoutBypass(st, message) ==
    /\ state' = st
    /\ failed' = message
    /\ ret' = ReturnedUndefined
    /\ pc' = "done"

\* the catch handler of run(), entered with the state store `st`
Caught(st, message) ==
    /\ state' = [st EXCEPT !["bypass"] = "true"]
    /\ failed' = message
    /\ ret' = ReturnedUndefined
    /\ pc' = "done"

\* run() returns `result` with the state store `st`
Return(st, result) ==
    /\ state' = st
    /\ ret' = result
    /\ pc' = "done"

\* how the promise of a call that is not awaited settles later on
PromiseFates ==
    {"resolved", "rejected"}

\* the post run logic is left enabled in merge deploy mode
MergeDeployBypassNotSaved(st) ==
    st

\* line 52: core.saveState('bypass', 'true')
MergeDeployBypass(st) ==
    [st EXCEPT !["bypass"] = "true"]

\* lines 20-57: read the inputs, mark the post phase, merge deploy mode, the body.
\* identicalCommitCheck is called without await: run() goes on whatever
\* becomes of its promise.
RunStart ==
    /\ entry = "run"
    /\ pc = "start"
    /\ LET st == [state EXCEPT !["isPost"] = "true", !["actionsToken"] = "token"]
       IN  IF cfg.mergeDeployMode
           THEN /\ \E fate \in PromiseFates :
                      Called([NoCall EXCEPT !.op = "identicalCommitCheck",
                                            !.outcome = fate,
                                            !.environment = Text(environment)])
                /\ Return(MergeDeployBypass(st), "success - merge deploy mode")
                /\ UNCHANGED <<local, failed>>
           ELSE IF ~cfg.commentPresent
           THEN /\ Caught(st, TypeErrorMessage)
                /\ UNCHANGED <<local, calls>>
           ELSE /\ state' = st
                /\ local' = [local EXCEPT !.body = Trim(cfg.body)]
                /\ pc' = "contextCheck"
                /\ UNCHANGED <<failed, ret, calls>>
    /\ UNCHANGED <<entry, cfg, output, warned, pd>>

\* lines 59-62
ContextCheck ==
    /\ entry = "run"
    /\ pc = "contextCheck"
    /\ \E r \in {"true", "false", "threw"} :
          /\ Called([NoCall EXCEPT !.op = "contextCheck",
                        !.outcome = IF r = "threw" THEN "threw" ELSE "returned"])
          /\ CASE r = "true"  -> /\ pc' = "triggerCheck"
                                 /\ UNCHANGED <<state, ret, failed>>
               [] r = "false" -> /\ Return(state, "safe-exit")
                                 /\ UNCHANGED failed
               [] r = "threw" -> Caught(state, PlatformError)
    /\ UNCHANGED <<entry, cfg, local, output, warned, pd>>

\* line 69
TriggerCheckDeploy ==
    /\ entry = "run"
    /\ pc = "triggerCheck"
    /\ \E r \in {"true", "false", "threw"} :
          /\ Called([NoCall EXCEPT !.op = "triggerCheck",
                        !.outcome = IF r = "threw" THEN "threw" ELSE "returned"])
          /\ IF r = "threw"
             THEN /\ Caught(state, PlatformError)
                  /\ UNCHANGED local
             ELSE /\ local' = [local EXCEPT !.isDeploy = (r = "true")]
                  /\ pc' = "triggerCheckHelp"
                  /\ UNCHANGED <<state, ret, failed>>
    /\ UNCHANGED <<entry, cfg, output, warned, pd>>

\* lines 74-88: the loop over [isDeploy, isHelp]; TRUE when it reaches the
\* `if (multipleTriggers)` branch
RECURSIVE MultipleTriggersLoop(_, _)
MultipleTriggersLoop(triggers, multipleTriggers) ==
    IF triggers = <<>> THEN FALSE
    ELSE IF ~Head(triggers) THEN MultipleTriggersLoop(Tail(triggers), multipleTriggers)
    ELSE IF multipleTriggers THEN TRUE
    ELSE MultipleTriggersLoop(Tail(triggers), TRUE)

\* the loop visits the deploy trigger only
MultipleTriggersFirstOnly(isDeploy, isHelp) ==
    MultipleTriggersLoop(<<isDeploy>>, FALSE)

MultipleTriggers(isDeploy, isHelp) ==
    MultipleTriggersLoop(<<isDeploy, isHelp>>, FALSE)

\* the help trigger alone is not taken for a trigger
TriggerTypeDeployOnly(isDeploy, isHelp) ==
    IF isDeploy THEN "deploy" ELSE "none"

\* lines 90-100: "none" is the branch that exits
TriggerType(isDeploy, isHelp) ==
    IF ~isDeploy /\ ~isHelp THEN "none"
    ELSE IF isDeploy THEN "deploy"
    ELSE "help"

\* lines 70-103
TriggerCheckHelp ==
    /\ entry = "run"
    /\ pc = "triggerCheckHelp"
    /\ \E r \in {"true", "false", "threw"} :
          /\ Called([NoCall EXCEPT !.op = "triggerCheck",
                        !.outcome = IF r = "threw" THEN "threw" ELSE "returned"])
          /\ IF r = "threw"
             THEN /\ Caught(state, PlatformError)
                  /\ UNCHANGED <<local, output>>
             ELSE LET isHelp == (r = "true")
                      isDeploy == local.isDeploy
                  IN  /\ local' = [local EXCEPT !.isHelp = isHelp]
                      /\ IF MultipleTriggers(isDeploy, isHelp)
                         THEN /\ Return([state EXCEPT !["bypass"] = "true"], "failure")
                              /\ output' = [output EXCEPT !["triggered"] = "false"]
                              /\ failed' = "IssueOps message contains multiple commands, only one is allowed"
                         ELSE IF TriggerType(isDeploy, isHelp) = "none"
                         THEN /\ Return([state EXCEPT !["bypass"] = "true"], "safe-exit")
                              /\ output' = [output EXCEPT !["triggered"] = "false"]
                              /\ UNCHANGED failed
                         ELSE /\ output' = [output EXCEPT
                                     !["type"] = TriggerType(isDeploy, isHelp),
                                     !["triggered"] = "true"]
                              /\ pc' = "reactEmote"
                              /\ UNCHANGED <<state, ret, failed>>
    /\ UNCHANGED <<entry, cfg, warned, pd>>

\* lines 105-111
ReactEmote ==
    /\ entry = "run"
    /\ pc = "reactEmote"
    /\ \/ /\ Called([NoCall EXCEPT !.op = "reactEmote", !.outcome = "threw"])
          /\ Caught(state, PlatformError)
          /\ UNCHANGED <<local, output>>
       \/ \E id \in Ids :
             /\ Called([NoCall EXCEPT !.op = "reactEmote", !.outcome = "returned",
                                      !.reaction_id = ToString(id)])
             /\ local' = [local EXCEPT !.reaction_id = ToString(id)]
             /\ output' = [output EXCEPT !["comment_id"] = cfg.comment_id,
                                         !["initial_reaction_id"] = ToString(id),
                                         !["actor_handle"] = Actor]
             /\ state' = [state EXCEPT !["comment_id"] = cfg.comment_id,
                                       !["reaction_id"] = ToString(id)]
             /\ pc' = IF local.isHelp THEN "validPermissions" ELSE "environmentTargets"
             /\ UNCHANGED <<ret, failed>>
    /\ UNCHANGED <<entry, cfg, warned, pd>>

\* lines 113-119
ValidPermissions ==
    /\ entry = "run"
    /\ pc = "validPermissions"
    /\ \E r \in {"true", PermissionMessage, "threw"} :
          /\ Called([NoCall EXCEPT !.op = "validPermissions",
                        !.outcome = IF r = "threw" THEN "threw" ELSE "returned"])
          /\ IF r = "threw"
             THEN /\ Caught(state, PlatformError)
                  /\ UNCHANGED local
             ELSE /\ local' = [local EXCEPT !.validPermissionsRes = r]
                  /\ pc' = IF r = "true" THEN "help" ELSE "permissionStatus"
                  /\ UNCHANGED <<state, ret, failed>>
    /\ UNCHANGED <<entry, cfg, output, warned, pd>>

\* lines 120-129
PermissionActionStatus ==
    /\ entry = "run"
    /\ pc = "permissionStatus"
    /\ \E o \in Outcomes :
          /\ Called([NoCall EXCEPT !.op = "actionStatus", !.outcome = o,
                                   !.reaction_id = local.reaction_id,
                                   !.message = <<local.validPermissionsRes>>,
                                   !.success = Undefined])
          /\ IF o = "threw"
             THEN Caught(state, PlatformError)
             ELSE /\ Return([state EXCEPT !["bypass"] = "true"], "failure")
                  /\ failed' = local.validPermissionsRes
    /\ UNCHANGED <<entry, cfg, local, output, warned, pd>>

\* lines 132-154
Help ==
    /\ entry = "run"
    /\ pc = "help"
    /\ \E o \in Outcomes :
          /\ Called([NoCall EXCEPT !.op = "help", !.outcome = o,
                                   !.reaction_id = local.reaction_id])
          /\ IF o = "threw"
             THEN Caught(state, PlatformError)
             ELSE /\ Return([state EXCEPT !["bypass"] = "true"], "safe-exit")
                  /\ UNCHANGED failed
    /\ UNCHANGED <<entry, cfg, local, output, warned, pd>>

\* environment-targets.js lines 181-185: the no-match message
NoMatchMessage(environment_targets_joined) ==
    <<"No matching environment target found. Please check your command and try again. You can read more about environment targets in the README of this Action.",
      "\n\n> The following environment targets are available: ",
      Text(environment_targets_joined)>>

\* main.js lines 157-181 with environmentTargets() (environment-targets.js
\* lines 147-207). The file binds no actionStatus (it imports core and dedent
\* only), so evaluating the call of line 190 throws a ReferenceError, which
\* run() catches.
EnvironmentTargets ==
    /\ entry = "run"
    /\ pc = "environmentTargets"
    /\ LET environment_targets_sanitized == Sanitized(cfg.environment_targets)
           environment_targets_joined == Join(environment_targets_sanitized, ",")
           environmentDetected ==
               onDeploymentChecks(environment_targets_sanitized, local.body, trigger,
                                  noop_trigger, stable_branch, environment)
           found == findEnvironmentUrl(environmentDetected.value, cfg.environment_urls)
           saved == EnvironmentUrlSaved(found)
           resolved == Text(environmentDetected.value)
       IN  IF ~environmentDetected.found
           THEN /\ warned' = TRUE
                /\ Caught([state EXCEPT !["bypass"] = "true"], ReferenceErrorMessage)
                /\ UNCHANGED <<local, output>>
           ELSE IF found.kind = "TypeError"
           THEN /\ Caught(state, TypeErrorMessage)
                /\ UNCHANGED <<local, output, warned>>
           ELSE /\ local' = [local EXCEPT
                       !.environmentDetected = TRUE,
                       !.environment = resolved,
                       !.environmentUrl =
                           IF found.kind = "url" THEN Text(found.url) ELSE Undefined]
                /\ IF resolved = ""
                   THEN /\ Return(IF saved = Unset THEN state
                                  ELSE [state EXCEPT !["environment_url"] = saved],
                                  "safe-exit")
                        /\ output' = IF saved = Unset THEN output
                                     ELSE [output EXCEPT !["environment_url"] = saved]
                   ELSE /\ state' = [state EXCEPT
                               !["environment_url"] = IF saved = Unset THEN @ ELSE saved,
                               !["environment"] = resolved]
                        /\ output' = [output EXCEPT
                               !["environment_url"] = IF saved = Unset THEN @ ELSE saved,
                               !["environment"] = resolved]
                        /\ pc' = "prechecks"
                        /\ UNCHANGED ret
                /\ UNCHANGED <<failed, warned>>
    /\ UNCHANGED <<entry, cfg, calls, pd>>

\* the status of the answer is not looked at
PrechecksNextIgnoresStatus(precheckResults) ==
    "createComment"

\* line 203: where run() goes after prechecks answered
PrechecksNext(precheckResults) ==
    IF ~precheckResults.status THEN "precheckStatus" ELSE "createComment"

\* lines 183-200
Prechecks ==
    /\ entry = "run"
    /\ pc = "prechecks"
    /\ \/ /\ Called([NoCall EXCEPT !.op = "prechecks", !.outcome = "threw",
                                   !.environment = local.environment])
          /\ Caught(state, PlatformError)
          /\ UNCHANGED <<local, output>>
       \/ \E r \in PrecheckResults :
             /\ Called([NoCall EXCEPT !.op = "prechecks", !.outcome = "returned",
                                      !.environment = local.environment])
             /\ local' = [local EXCEPT !.precheckResults = r]
             /\ output' = [output EXCEPT !["ref"] = ToCommandValue(r.ref),
                                         !["sha"] = ToCommandValue(r.sha)]
             /\ state' = [state EXCEPT !["ref"] = ToCommandValue(r.ref)]
             /\ pc' = PrechecksNext(r)
             /\ UNCHANGED <<ret, failed>>
    /\ UNCHANGED <<entry, cfg, warned, pd>>

\* lines 202-214
PrecheckActionStatus ==
    /\ entry = "run"
    /\ pc = "precheckStatus"
    /\ \E o \in Outcomes :
          /\ Called([NoCall EXCEPT !.op = "actionStatus", !.outcome = o,
                                   !.reaction_id = local.reaction_id,
                                   !.message = <<local.precheckResults.message>>,
                                   !.success = Undefined])
          /\ IF o = "threw"
             THEN Caught(state, PlatformError)
             ELSE /\ Return([state EXCEPT !["bypass"] = "true"], "failure")
                  /\ failed' = local.precheckResults.message
    /\ UNCHANGED <<entry, cfg, local, output, warned, pd>>

\* a value inside a template literal
TemplateString(v) ==
    IF v = Undefined THEN "undefined" ELSE v

\* lines 218-233: the 'Deployment Triggered' comment
TriggeredComment(noopMode, environment_, ref) ==
    <<"### Deployment Triggered [rocket]", "\n\n__", Actor, "__, started a __",
      IF noopMode THEN "noop" ELSE "branch", "__ deployment to __", environment_,
      "__", "\n\n> __Branch__: ", TemplateString(ref)>>

\* lines 216-256
CreateComment ==
    /\ entry = "run"
    /\ pc = "createComment"
    /\ \E o \in Outcomes :
          /\ Called([NoCall EXCEPT !.op = "createComment", !.outcome = o,
                        !.message = TriggeredComment(local.precheckResults.noopMode,
                                                     local.environment,
                                                     local.precheckResults.ref)])
          /\ IF o = "threw"
             THEN /\ Caught(state, PlatformError)
                  /\ UNCHANGED output
             ELSE IF local.precheckResults.noopMode
             THEN /\ output' = [output EXCEPT !["noop"] = "true",
                                              !["continue"] = "true"]
                  /\ Return([state EXCEPT !["noop"] = "true"], "success - noop")
                  /\ UNCHANGED failed
             ELSE /\ output' = [output EXCEPT !["noop"] = "false"]
                  /\ state' = [state EXCEPT !["noop"] = "false"]
                  /\ pc' = "createDeployment"
                  /\ UNCHANGED <<ret, failed>>
    /\ UNCHANGED <<entry, cfg, local, warned, pd>>

\* lines 299-303: the answer says the base branch was merged in first.
\* "TypeError": the answer has neither id nor message and `.includes` is read
\* of undefined
MergeRequired(createDeploy) ==
    IF createDeploy.id # Undefined THEN "no"
    ELSE IF ~createDeploy.hasMessage THEN "TypeError"
    ELSE IF Includes(createDeploy.message, AutoMergedMarker) THEN "yes"
    ELSE "no"

\* lines 280-303
CreateDeployment ==
    /\ entry = "run"
    /\ pc = "createDeployment"
    /\ \/ /\ Called([NoCall EXCEPT !.op = "createDeployment", !.outcome = "threw",
                                   !.ref = local.precheckResults.ref,
                                   !.environment = local.environment])
          /\ Caught(state, PlatformError)
          /\ UNCHANGED <<local, output>>
       \/ \E r \in CreateDeployResults :
             /\ Called([NoCall EXCEPT !.op = "createDeployment",
                                      !.outcome = "returned",
                                      !.ref = local.precheckResults.ref,
                                      !.environment = local.environment,
                                      !.deployment_id = r.id])
             /\ local' = [local EXCEPT !.createDeploy = r]
             /\ output' = [output EXCEPT !["deployment_id"] = ToCommandValue(r.id)]
             /\ LET st == [state EXCEPT !["deployment_id"] = ToCommandValue(r.id)]
                    merge == MergeRequired(r)
                IN  IF merge = "TypeError"
                    THEN Caught(st, TypeErrorMessage)
                    ELSE /\ state' = st
                         /\ pc' = IF merge = "yes" THEN "mergeStatus" ELSE "inProgress"
                         /\ UNCHANGED <<ret, failed>>
    /\ UNCHANGED <<entry, cfg, warned, pd>>

\* lines 304-311
MergeMessage(createDeploy) ==
    <<"### [warning] Deployment Warning", "\n\n- Message: ",
      Text(createDeploy.message),
      "\n- Note: If you have required CI checks, you may need to manually push a commit to re-run them",
      "\n\n> Deployment will not continue. Please try again once this branch is up-to-date with the base branch">>

\* lines 312-317
MergeActionStatus ==
    /\ entry = "run"
    /\ pc = "mergeStatus"
    /\ \E o \in Outcomes :
          /\ Called([NoCall EXCEPT !.op = "actionStatus", !.outcome = o,
                                   !.reaction_id = local.reaction_id,
                                   !.message = MergeMessage(local.createDeploy),
                                   !.success = Undefined])
          /\ IF o = "threw"
             THEN Caught(state, PlatformError)
             ELSE /\ Return([state EXCEPT !["bypass"] = "true"], "safe-exit")
                  /\ UNCHANGED failed
    /\ UNCHANGED <<entry, cfg, local, output, warned, pd>>

\* lines 319-331
InProgress ==
    /\ entry = "run"
    /\ pc = "inProgress"
    /\ \E o \in Outcomes :
          /\ Called([NoCall EXCEPT !.op = "createDeploymentStatus", !.outcome = o,
                                   !.ref = local.precheckResults.ref,
                                   !.status = "in_progress",
                                   !.deployment_id = local.createDeploy.id,
                                   !.environment = local.environment,
                                   !.environment_url = local.environmentUrl])
          /\ IF o = "threw"
             THEN /\ Caught(state, PlatformError)
                  /\ UNCHANGED output
             ELSE /\ output' = [output EXCEPT !["continue"] = "true"]
                  /\ Return(state, "success")
                  /\ UNCHANGED failed
    /\ UNCHANGED <<entry, cfg, local, warned, pd>>

(***************************************************************************)
(* post-deploy.js: postDeploy()                                            *)
(***************************************************************************)
\* String.prototype.replace with a global pattern: every occurrence, left to right
RECURSIVE ReplaceAll(_, _, _)
ReplaceAll(s, p, r) ==
    LET i == IndexOf(p, s)
    IN  IF i = 0 \/ p = <<>>
        THEN s
        ELSE SubSeq(s, 1, i - 1) \o r
             \o ReplaceAll(SubSeq(s, i + Len(p), Len(s)), p, r)

\* the patterns are strings: only the first occurrence of each is replaced
customMessageFmtFirstOnly(customMessage) ==
    Replace(Replace(customMessage, <<"\\", "n">>, <<"\n">>),
            <<"\\", "t">>, <<"\t">>)

\* lines 84-86: customMessage.replace(/\\n/g, '\n').replace(/\\t/g, '\t')
customMessageFmt(customMessage) ==
    ReplaceAll(ReplaceAll(customMessage, <<"\\", "n">>, <<"\n">>),
               <<"\\", "t">>, <<"\t">>)

\* custom messages given to the completion phase
CustomMessages ==
    {<<>>, <<"o","k","\\","n","\\","t","d","o","n","e">>}

\* environment urls given to postDeploy
UrlHttps ==
    <<"h","t","t","p","s",":","/","/","p",".","i","o">>

UrlHttp ==
    <<"h","t","t","p",":","/","/","p",".","i","o">>

UrlSpace ==
    <<" ">>

KnownUrls ==
    {<<>>, UrlHttps, UrlHttp, UrlSpace}

\* the characters of a url that is held as a plain string
Chars(text) ==
    CHOOSE c \in KnownUrls : Text(c) = text

\* the input checks without the check of ref
InputErrorWithoutRef(comment_id, status, ref, noop, deployment_id, environment_) ==
    IF Missing(comment_id) THEN "no comment_id provided"
    ELSE IF Missing(status) THEN "no status provided"
    ELSE IF Missing(noop) THEN "no noop value provided"
    ELSE IF noop # "true" /\ Missing(deployment_id) THEN "no deployment_id provided"
    ELSE IF noop # "true" /\ Missing(environment_) THEN "no environment provided"
    ELSE ""

\* lines 34-50: the message of the error the input checks throw, "" when they pass
InputError(comment_id, status, ref, noop, deployment_id, environment_) ==
    IF Missing(comment_id) THEN "no comment_id provided"
    ELSE IF Missing(status) THEN "no status provided"
    ELSE IF Missing(ref) THEN "no ref provided"
    ELSE IF Missing(noop) THEN "no noop value provided"
    ELSE IF noop # "true" /\ Missing(deployment_id) THEN "no deployment_id provided"
    ELSE IF noop # "true" /\ Missing(environment_) THEN "no environment provided"
    ELSE ""

\* everything but 'failure' counts as a success
SuccessUnlessFailure(status) ==
    status # "failure"

\* lines 52-58
Success(status) ==
    IF status = "success" THEN TRUE ELSE FALSE

\* the qualifier is never inserted
deployTypeStringPlain(noop) ==
    " "

\* lines 60-65
deployTypeString(noop) ==
    IF noop = "true" THEN " **noop** " ELSE " "

\* every status but 'success' is reported as a failure
StatusMessageTwoWay(status, noop, ref, environment_) ==
    IF status = "success"
    THEN <<"[check]", <<"**", Actor, "** successfully", deployTypeString(noop),
                       "deployed branch ", ref, " to **",
                       TemplateString(environment_), "**">> >>
    ELSE <<"[cross]", <<"**", Actor, "** had a failure when", deployTypeString(noop),
                       "deploying branch ", ref, " to **",
                       TemplateString(environment_), "**">> >>

\* lines 67-79: <<deployStatus, message>>
StatusMessage(status, noop, ref, environment_) ==
    IF status = "success"
    THEN <<"[check]", <<"**", Actor, "** successfully", deployTypeString(noop),
                       "deployed branch ", ref, " to **",
                       TemplateString(environment_), "**">> >>
    ELSE IF status = "failure"
    THEN <<"[cross]", <<"**", Actor, "** had a failure when", deployTypeString(noop),
                       "deploying branch ", ref, " to **",
                       TemplateString(environment_), "**">> >>
    ELSE <<"[warning]", <<"Warning:", deployTypeString(noop),
                         "deployment status is unknown, please use caution">> >>

\* the url line is added to the message of a noop deployment too
UrlInCommentAlsoNoop(environment_url, status, noop, environment_url_in_comment) ==
    /\ environment_url # Undefined
    /\ environment_url # ""
    /\ Trim(Chars(environment_url)) # <<>>
    /\ status = "success"
    /\ environment_url_in_comment = TRUE

\* lines 108-115
UrlInComment(environment_url, status, noop, environment_url_in_comment) ==
    /\ environment_url # Undefined
    /\ environment_url # ""
    /\ Trim(Chars(environment_url)) # <<>>
    /\ status = "success"
    /\ noop # "true"
    /\ environment_url_in_comment = TRUE

\* lines 81-120: message_fmt
MessageFmt(p) ==
    LET sm == StatusMessage(p.status, p.noop, p.ref, p.environment)
        head == <<"### Deployment Results ", sm[1], "\n\n">> \o sm[2]
        body == IF p.customMessage # <<>>
                THEN head \o <<"\n\n<details><summary>Show Results</summary>\n\n",
                               Text(customMessageFmt(p.customMessage)),
                               "\n\n</details>">>
                ELSE head
    IN  IF UrlInComment(p.environment_url, p.status, p.noop,
                        p.environment_url_in_comment)
        THEN body \o <<"\n\n> **Environment URL:** [",
                       Text(Replace(Replace(Chars(p.environment_url), HttpsScheme, <<>>),
                                    HttpScheme, <<>>)),
                       "](", p.environment_url, ")">>
        ELSE body

\* parseInt(reaction_id), written as the platform receives it
ParseInt(text) ==
    IF text \in {ToString(i) : i \in Ids} THEN text ELSE "NaN"

\* lines 34-50
PostDeployValidate ==
    /\ pd.pc = "validate"
    /\ LET error == InputError(pd.comment_id, pd.status, pd.ref, pd.noop,
                               pd.deployment_id, pd.environment)
       IN  pd' = IF error # ""
                 THEN [pd EXCEPT !.pc = "threw", !.error = error]
                 ELSE [pd EXCEPT !.pc = "actionStatus"]
    /\ UNCHANGED <<entry, cfg, pc, local, state, output, failed, warned, calls, ret>>

\* an error of the comment update is swallowed
AfterActionStatusIgnoresThrow(outcome, noop) ==
    IF noop = "true" THEN "returned" ELSE "deploymentStatus"

\* lines 123-142: where postDeploy is after the awaited actionStatus call
AfterActionStatus(outcome, noop) ==
    IF outcome = "threw" THEN "threw"
    ELSE IF noop = "true" THEN "returned"
    ELSE "deploymentStatus"

\* lines 122-142
PostDeployActionStatus ==
    /\ pd.pc = "actionStatus"
    /\ \E o \in Outcomes :
          /\ Called([NoCall EXCEPT !.op = "actionStatus", !.outcome = o,
                        !.reaction_id = ParseInt(pd.reaction_id),
                        !.message = MessageFmt(pd),
                        !.success = IF Success(pd.status) THEN "true" ELSE "false"])
          /\ pd' = CASE AfterActionStatus(o, pd.noop) = "threw"
                          -> [pd EXCEPT !.pc = "threw", !.error = PlatformError]
                      [] AfterActionStatus(o, pd.noop) = "returned"
                          -> [pd EXCEPT !.pc = "returned",
                                        !.result = "success - noop"]
                      [] OTHER -> [pd EXCEPT !.pc = "deploymentStatus"]
    /\ UNCHANGED <<entry, cfg, pc, local, state, output, failed, warned, ret>>

\* the status input is handed to the platform as it came
deploymentStatusEcho(status) ==
    status

\* lines 131-137
deploymentStatus(status) ==
    IF Success(status) THEN "success" ELSE "failure"

\* lines 144-156
PostDeployDeploymentStatus ==
    /\ pd.pc = "deploymentStatus"
    /\ \E o \in Outcomes :
          /\ Called([NoCall EXCEPT !.op = "createDeploymentStatus", !.outcome = o,
                        !.ref = pd.ref,
                        !.status = deploymentStatus(pd.status),
                        !.deployment_id = pd.deployment_id,
                        !.environment = pd.environment,
                        !.environment_url = pd.environment_url])
          /\ pd' = IF o = "threw"
                   THEN [pd EXCEPT !.pc = "threw", !.error = PlatformError]
                   ELSE [pd EXCEPT !.pc = "returned", !.result = "success"]
    /\ UNCHANGED <<entry, cfg, pc, local, state, output, failed, warned, ret>>

(***************************************************************************)
(* The completion phase: post()                                            *)
(***************************************************************************)
\* The second invocation of the action (main.js lines 339-346: isPost is set).
\* post() skips when bypass was saved as 'true'; otherwise it hands the saved
\* state and the status input to postDeploy.
Post ==
    /\ entry = "run"
    /\ pc = "done"
    /\ pd.pc = "idle"
    /\ GetState("isPost") = "true"
    /\ IF GetState("bypass") = "true"
       THEN pd' = [pd EXCEPT !.pc = "skipped"]
       ELSE \E status \in StatusInputs, customMessage \in CustomMessages,
               environment_url_in_comment \in BOOLEAN :
               pd' = [pc |-> "validate",
                      comment_id |-> GetState("comment_id"),
                      reaction_id |-> GetState("reaction_id"),
                      status |-> status,
                      customMessage |-> customMessage,
                      ref |-> GetState("ref"),
                      noop |-> GetState("noop"),
                      deployment_id |-> GetState("deployment_id"),
                      environment |-> GetState("environment"),
                      environment_url |->
                          IF GetState("environment_url") \in {"null", ""}
                          THEN Undefined ELSE GetState("environment_url"),
                      environment_url_in_comment |-> environment_url_in_comment,
                      error |-> "-", result |-> "-", base |-> Len(calls)]
    /\ UNCHANGED <<entry, cfg, pc, local, state, output, failed, warned, calls, ret>>

(***************************************************************************)
(* Specification                                                           *)
(***************************************************************************)
\* arguments of a direct call of postDeploy
PostDeployArgs ==
    [pc : {"validate"},
     comment_id : {Undefined, "", "1"},
     reaction_id : {"1"},
     status : {Undefined} \cup StatusInputs,
     customMessage : CustomMessages,
     ref : {Undefined, "", "feature"},
     noop : {Undefined, "", "true", "false"},
     deployment_id : {Undefined, "", "1"},
     environment : {Undefined, "", "production"},
     environment_url : {Undefined, " ", Text(UrlHttps)},
     environment_url_in_comment : BOOLEAN,
     error : {"-"}, result : {"-"}, base : {0}]

\* the configuration recorded for a direct call of postDeploy, which reads none
DirectConfig ==
    [mergeDeployMode |-> FALSE, commentPresent |-> TRUE, body |-> BodyDeploy,
     comment_id |-> "1", environment_targets |-> TargetsDefault,
     environment_urls |-> UrlsBlank]

Init ==
    /\ local = InitLocal
    /\ state = [k \in StateKeys |-> Unset]
    /\ output = [k \in OutputKeys |-> Unset]
    /\ failed = NotFailed
    /\ warned = FALSE
    /\ calls = <<>>
    /\ ret = Running
    /\ \/ /\ entry = "run"
          /\ cfg \in RunConfigs
          /\ pc = "start"
          /\ pd = NoPostDeploy
       \/ /\ entry = "postDeploy"
          /\ cfg = DirectConfig
          /\ pc = "none"
          /\ pd \in PostDeployArgs

Next ==
    \/ RunStart
    \/ ContextCheck
    \/ TriggerCheckDeploy
    \/ TriggerCheckHelp
    \/ ReactEmote
    \/ ValidPermissions
    \/ PermissionActionStatus
    \/ Help
    \/ EnvironmentTargets
    \/ Prechecks
    \/ PrecheckActionStatus
    \/ CreateComment
    \/ CreateDeployment
    \/ MergeActionStatus
    \/ InProgress
    \/ Post
    \/ PostDeployValidate
    \/ PostDeployActionStatus
    \/ PostDeployDeploymentStatus

Spec ==
    Init /\ [][Next]_vars

(***************************************************************************)
(* environment-targets.js, its two helpers called directly                 *)
(***************************************************************************)
Staging ==
    <<"s","t","a","g","i","n","g">>

\* a name that begins with the default stable branch name
MainStaging ==
    <<"m","a","i","n","s","t","a","g","i","n","g">>

Development ==
    <<"d","e","v","e","l","o","p","m","e","n","t">>

Master ==
    <<"m","a","s","t","e","r">>

\* entries of environment_targets (the empty one: 'a,,b' or a blank input)
TargetNames ==
    {environment, Staging, MainStaging, <<>>}

\* values of the stable_branch input
StableBranches ==
    {stable_branch, Master}

\* values of the environment input
DefaultEnvironments ==
    {environment, Development}

\* the lists a configuration can name, in order, repeats allowed
TargetLists ==
    UNION {[1..n -> TargetNames] : n \in 0..MaxTargets}

\* trimmed comment bodies: the trigger alone, with the noop trigger, with the
\* stable branch, with a name and with 'to' and a name
ResolverBodies(stable_branch_) ==
    {trigger, trigger \o <<" ">> \o noop_trigger,
     trigger \o <<" ">> \o stable_branch_, BodyUnknown}
    \cup {trigger \o <<" ">> \o n : n \in TargetNames \ {<<>>}}
    \cup {trigger \o <<" ">> \o ToPrefix \o n : n \in TargetNames \ {<<>>}}

ResolverConfigs ==
    UNION {[environment_targets : {Join(l, ",") : l \in TargetLists},
            body : ResolverBodies(s),
            stable_branch : {s},
            environment : DefaultEnvironments] : s \in StableBranches}

\* pairs of environment_urls
PairHttps ==
    <<"p","r","o","d","u","c","t","i","o","n","|","h","t","t","p","s",":","/","/","p",".","i","o">>

PairDisabled ==
    <<"p","r","o","d","u","c","t","i","o","n","|","d","i","s","a","b","l","e","d">>

PairFtp ==
    <<"p","r","o","d","u","c","t","i","o","n","|","f","t","p",":","/","/","p",".","i","o">>

PairEmptyUrl ==
    <<"p","r","o","d","u","c","t","i","o","n","|">>

PairNoBar ==
    <<"p","r","o","d","u","c","t","i","o","n">>

PairStaging ==
    <<"s","t","a","g","i","n","g","|","h","t","t","p",":","/","/","s",".","i","o">>

UrlPairs ==
    {PairHttps, PairDisabled, PairFtp, PairEmptyUrl, PairNoBar, PairStaging}

PairLists ==
    UNION {[1..n -> UrlPairs] : n \in 0..MaxPairs}

UrlConfigs ==
    [environment : {environment, Staging},
     environment_urls : {Join(l, ",") : l \in PairLists} \cup {<<" ">>}]

\* environment-targets.js lines 162-177: the list is split and trimmed, then
\* resolved against the body
OnDeploymentChecksCall ==
    /\ entry = "onDeploymentChecks"
    /\ pc = "call"
    /\ ret' = onDeploymentChecks(Sanitized(cfg.environment_targets), cfg.body,
                                 trigger, noop_trigger, cfg.stable_branch,
                                 cfg.environment)
    /\ pc' = "returned"
    /\ UNCHANGED <<entry, cfg, local, state, output, failed, warned, calls, pd>>

\* environment-targets.js lines 87-134
FindEnvironmentUrlCall ==
    /\ entry = "findEnvironmentUrl"
    /\ pc = "call"
    /\ LET found == findEnvironmentUrl(cfg.environment, cfg.environment_urls)
           saved == EnvironmentUrlSaved(found)
       IN  /\ ret' = found
           /\ pc' = IF found.kind = "TypeError" THEN "threw" ELSE "returned"
           /\ state' = [state EXCEPT !["environment_url"] =
                                         IF saved = Unset THEN @ ELSE saved]
           /\ output' = [output EXCEPT !["environment_url"] =
                                           IF saved = Unset THEN @ ELSE saved]
    /\ UNCHANGED <<entry, cfg, local, failed, warned, calls, pd>>

EnvironmentTargetsInit ==
    /\ local = InitLocal
    /\ state = [k \in StateKeys |-> Unset]
    /\ output = [k \in OutputKeys |-> Unset]
    /\ failed = NotFailed
    /\ warned = FALSE
    /\ calls = <<>>
    /\ ret = Running
    /\ pd = NoPostDeploy
    /\ pc = "call"
    /\ \/ /\ entry = "onDeploymentChecks"
          /\ cfg \in ResolverConfigs
       \/ /\ entry = "findEnvironmentUrl"
          /\ cfg \in UrlConfigs

EnvironmentTargetsNext ==
    \/ OnDeploymentChecksCall
    \/ FindEnvironmentUrlCall

EnvironmentTargetsSpec ==
    EnvironmentTargetsInit /\ [][EnvironmentTargetsNext]_vars

(***************************************************************************)
(* post-deploy.js, the unescaping of the custom message called directly    *)
(***************************************************************************)
\* the characters custom messages are made of: the backslash, the letters of
\* the two escapes and another letter
MessageChars ==
    {"\\", "n", "t", "x"}

MessageTexts ==
    UNION {[1..n -> MessageChars] : n \in 0..MaxMessageLen}

\* post-deploy.js lines 84-86
CustomMessageFmtCall ==
    /\ entry = "customMessageFmt"
    /\ pc = "call"
    /\ ret' = customMessageFmt(cfg.customMessage)
    /\ pc' = "returned"
    /\ UNCHANGED <<entry, cfg, local, state, output, failed, warned, calls, pd>>

CustomMessageInit ==
    /\ local = InitLocal
    /\ state = [k \in StateKeys |-> Unset]
    /\ output = [k \in OutputKeys |-> Unset]
    /\ failed = NotFailed
    /\ warned = FALSE
    /\ calls = <<>>
    /\ ret = Running
    /\ pd = NoPostDeploy
    /\ pc = "call"
    /\ entry = "customMessageFmt"
    /\ cfg \in [customMessage : MessageTexts]

CustomMessageNext ==
    CustomMessageFmtCall

CustomMessageSpec ==
    CustomMessageInit /\ [][CustomMessageNext]_vars

(***************************************************************************)
(* Reading the call log                                                    *)
(***************************************************************************)
\* the positions of the calls of `op`
CallsOf(op) ==
    {i \in 1..Len(calls) : calls[i].op = op}

\* the positions of the deployment-status calls that set `status`
StatusCalls(statuses) ==
    {i \in CallsOf("createDeploymentStatus") : calls[i].status \in statuses}

\* the positions of the calls postDeploy made
PostDeployCalls ==
    {i \in 1..Len(calls) : i > pd.base /\ pd.pc \notin {"idle", "skipped"}}

\* status comment updates: actionStatus, and the one help() makes
StatusUpdates ==
    CallsOf("actionStatus") \cup {i \in CallsOf("help") : calls[i].outcome = "returned"}

RunEnded ==
    entry = "run" /\ pc = "done"

\* the completion phase is over: skipped, returned or thrown
PostEnded ==
    pd.pc \in {"skipped", "returned", "threw"}

TerminalStatuses ==
    {"success", "failure"}

(***************************************************************************)
(* C1  Every ending of run() other than 'success' and 'success - noop'     *)
(* (a return of 'safe-exit', 'failure', 'success - merge deploy mode', or  *)
(* the catch handler) has saved bypass as 'true' by the time run() ends.   *)
(***************************************************************************)
C1_BypassOnEveryOtherEnding ==
    (RunEnded /\ ret \notin {"success", "success - noop"})
        => state["bypass"] = "true"

(***************************************************************************)
(* C2  When both the deploy trigger and the help trigger match, run()      *)
(* returns 'failure', the run is marked failed, the output triggered is    *)
(* 'false', bypass is saved as 'true', and no reaction, comment, status    *)
(* update, environment resolution, precheck or deployment call is made.    *)
(***************************************************************************)
C2_MultipleTriggersAbort ==
    (entry = "run" /\ local.isDeploy /\ local.isHelp)
        => /\ pc = "done"
           /\ ret = "failure"
           /\ failed = "IssueOps message contains multiple commands, only one is allowed"
           /\ output["triggered"] = "false"
           /\ state["bypass"] = "true"
           /\ \A i \in 1..Len(calls) : calls[i].op \in {"contextCheck", "triggerCheck"}
           /\ ~local.environmentDetected
           /\ ~warned
           /\ output["environment"] = Unset

C2_Witness ==
    /\ entry = "run"
    /\ local.isDeploy /\ local.isHelp
    /\ ret = "failure"
    /\ output["triggered"] = "false"

(***************************************************************************)
(* C3  A run that added its reaction ends, over both phases, with exactly  *)
(* one status comment update, also when a later platform call throws.      *)
(***************************************************************************)
C3_ExactlyOneStatusUpdate ==
    (/\ RunEnded
     /\ PostEnded
     /\ \E i \in CallsOf("reactEmote") : calls[i].outcome = "returned")
        => Cardinality(StatusUpdates) = 1

(***************************************************************************)
(* C4  The deployment record of a run: createDeployment is called at most  *)
(* once, after the environment was resolved and prechecks allowed a        *)
(* non-noop deploy; in_progress is set at most once, after createDeployment*)
(* returned, and exactly once when run() returns 'success'; a terminal     *)
(* status is set at most once, after in_progress, and exactly once when    *)
(* postDeploy returns 'success'.                                           *)
(***************************************************************************)
C4_DeploymentRecordOrder ==
    entry = "run" =>
        /\ Cardinality(CallsOf("createDeployment")) <= 1
        /\ \A i \in CallsOf("createDeployment") :
              /\ local.environmentDetected
              /\ local.precheckResults.status
              /\ ~local.precheckResults.noopMode
              /\ \E j \in 1..(i - 1) :
                    calls[j].op = "prechecks" /\ calls[j].outcome = "returned"
        /\ Cardinality(StatusCalls({"in_progress"})) <= 1
        /\ \A i \in StatusCalls({"in_progress"}) :
              \E j \in 1..(i - 1) :
                 calls[j].op = "createDeployment" /\ calls[j].outcome = "returned"
        /\ ret = "success" => Cardinality(StatusCalls({"in_progress"})) = 1
        /\ Cardinality(StatusCalls(TerminalStatuses)) <= 1
        /\ \A i \in StatusCalls(TerminalStatuses) :
              \E j \in 1..(i - 1) :
                 /\ j \in StatusCalls({"in_progress"})
                 /\ calls[j].outcome = "returned"
        /\ (pd.pc = "returned" /\ pd.result = "success")
              => Cardinality(StatusCalls(TerminalStatuses)) = 1
        /\ CallsOf("createDeploymentStatus")
              = StatusCalls({"in_progress"}) \cup StatusCalls(TerminalStatuses)

C4_Witness ==
    /\ entry = "run"
    /\ ret = "success"
    /\ pd.pc = "returned"
    /\ pd.result = "success"
    /\ Cardinality(StatusCalls({"in_progress"})) = 1
    /\ Cardinality(StatusCalls({"failure"})) = 1

(***************************************************************************)
(* C5  A no-op deploy touches no deployment record: when prechecks report  *)
(* noopMode, run() makes no createDeployment and no createDeploymentStatus *)
(* call and, once the 'Deployment Triggered' comment is posted, saves      *)
(* noop='true' and returns 'success - noop'; postDeploy with noop ===      *)
(* 'true' makes no createDeploymentStatus call, and when its comment       *)
(* update returns it returns 'success - noop', whatever the status, with a *)
(* message that holds the qualifier **noop**.                              *)
(***************************************************************************)
C5_NoopTouchesNoDeployment ==
    /\ (entry = "run" /\ local.precheckResults.noopMode)
          => /\ CallsOf("createDeployment") = {}
             /\ CallsOf("createDeploymentStatus") = {}
             /\ (pc = "done" /\ ret # ReturnedUndefined)
                   => /\ ret = "success - noop"
                      /\ state["noop"] = "true"
    /\ (pd.noop = "true" /\ pd.pc \notin {"idle", "skipped", "validate"})
          => /\ \A i \in PostDeployCalls : calls[i].op = "actionStatus"
             /\ Cardinality(PostDeployCalls) <= 1
             /\ pd.pc # "deploymentStatus"
             /\ pd.pc = "returned"
                   => /\ pd.result = "success - noop"
                      /\ \E i \in PostDeployCalls :
                            /\ calls[i].outcome = "returned"
                            /\ \E k \in 1..Len(calls[i].message) :
                                  calls[i].message[k] = " **noop** "

C5_Witness ==
    /\ entry = "run"
    /\ local.precheckResults.noopMode
    /\ ret = "success - noop"
    /\ pd.noop = "true"
    /\ pd.status = "failure"
    /\ pd.pc = "returned"

\* the messages of postDeploy's precondition errors
PreconditionErrors ==
    {"no comment_id provided", "no status provided", "no ref provided",
     "no noop value provided", "no deployment_id provided",
     "no environment provided"}

\* postDeploy has checked its inputs
PostDeployChecked ==
    pd.pc \in {"actionStatus", "deploymentStatus", "returned", "threw"}

\* comment_id, status, ref and noop are all given
CoreInputsGiven ==
    /\ pd.comment_id \notin {Undefined, ""}
    /\ pd.status \notin {Undefined, ""}
    /\ pd.ref \notin {Undefined, ""}
    /\ pd.noop \notin {Undefined, ""}

\* deployment_id and environment are both given
DeploymentInputsGiven ==
    /\ pd.deployment_id \notin {Undefined, ""}
    /\ pd.environment \notin {Undefined, ""}

(***************************************************************************)
(* C6  postDeploy checks its inputs before it acts: with comment_id,       *)
(* status, ref or noop missing or empty, or with noop not 'true' and       *)
(* deployment_id or environment missing or empty, it throws a precondition *)
(* error and makes no platform call; with noop === 'true' a missing        *)
(* deployment_id or environment is no error.                               *)
(***************************************************************************)
C6_InputsCheckedFirst ==
    PostDeployChecked =>
        /\ (~CoreInputsGiven \/ (pd.noop # "true" /\ ~DeploymentInputsGiven))
              => /\ pd.pc = "threw"
                 /\ pd.error \in PreconditionErrors
                 /\ PostDeployCalls = {}
        /\ (CoreInputsGiven /\ (pd.noop = "true" \/ DeploymentInputsGiven))
              => (pd.pc = "threw" => pd.error \notin PreconditionErrors)

C6_Witness ==
    /\ entry = "postDeploy"
    /\ CoreInputsGiven
    /\ pd.noop = "false"
    /\ pd.deployment_id = ""
    /\ pd.pc = "threw"
    /\ pd.error = "no deployment_id provided"

\* with noop 'true' the missing deployment inputs are accepted
C6_NoopWitness ==
    /\ CoreInputsGiven
    /\ pd.noop = "true"
    /\ pd.deployment_id = Undefined
    /\ pd.environment = ""
    /\ pd.pc = "returned"

(***************************************************************************)
(* C7  postDeploy with valid inputs and noop not 'true' issues one         *)
(* deployment-status transition, for the given deployment_id, ref and      *)
(* environment, with state 'success' exactly when the status input is      *)
(* 'success' and 'failure' for every other status; the success flag of the *)
(* comment update is true under the same condition; and it returns         *)
(* 'success'. (It ends otherwise only when a platform call throws.)        *)
(***************************************************************************)
C7_OneTerminalTransition ==
    (PostDeployChecked /\ CoreInputsGiven /\ DeploymentInputsGiven /\ pd.noop # "true")
        => LET transitions ==
                   {i \in PostDeployCalls : calls[i].op = "createDeploymentStatus"}
               updates == {i \in PostDeployCalls : calls[i].op = "actionStatus"}
           IN  /\ Cardinality(transitions) <= 1
               /\ Cardinality(updates) <= 1
               /\ PostDeployCalls = transitions \cup updates
               /\ \A i \in transitions :
                     /\ calls[i].deployment_id = pd.deployment_id
                     /\ calls[i].ref = pd.ref
                     /\ calls[i].environment = pd.environment
                     /\ calls[i].status \in TerminalStatuses
                     /\ calls[i].status = "success" <=> pd.status = "success"
               /\ \A i \in updates :
                     /\ calls[i].success \in {"true", "false"}
                     /\ calls[i].success = "true" <=> pd.status = "success"
               /\ pd.pc = "returned"
                     => /\ pd.result = "success"
                        /\ Cardinality(transitions) = 1
                        /\ Cardinality(updates) = 1
               /\ pd.pc = "threw"
                     => /\ pd.error = PlatformError
                        /\ calls[Len(calls)].outcome = "threw"

C7_Witness ==
    /\ entry = "postDeploy"
    /\ pd.status = "cancelled"
    /\ pd.noop = "false"
    /\ pd.pc = "returned"
    /\ pd.result = "success"
    /\ \E i \in PostDeployCalls :
          calls[i].op = "createDeploymentStatus" /\ calls[i].status = "failure"

(***************************************************************************)
(* C8  When prechecks reject, the precheck's ref is saved and output before*)
(* the rejection is handled; run() makes one actionStatus call carrying    *)
(* the rejection message unchanged, saves bypass='true', marks the run     *)
(* failed with that message and returns 'failure'; no 'Deployment          *)
(* Triggered' comment is created and createDeployment and                  *)
(* createDeploymentStatus are never called. (Should that actionStatus call *)
(* throw, the run ends in the catch handler instead.)                      *)
(***************************************************************************)
C8_PrecheckRejection ==
    (/\ entry = "run"
     /\ local.precheckResults # NoPrecheck
     /\ ~local.precheckResults.status)
        => /\ state["ref"] = ToCommandValue(local.precheckResults.ref)
           /\ output["ref"] = ToCommandValue(local.precheckResults.ref)
           /\ CallsOf("createComment") = {}
           /\ CallsOf("createDeployment") = {}
           /\ CallsOf("createDeploymentStatus") = {}
           /\ pc \in {"precheckStatus", "done"}
           /\ pc = "precheckStatus" => CallsOf("actionStatus") = {}
           /\ pc = "done"
                 => /\ Cardinality(CallsOf("actionStatus")) = 1
                    /\ \A i \in CallsOf("actionStatus") :
                          /\ calls[i].message = <<local.precheckResults.message>>
                          /\ calls[i].reaction_id = local.reaction_id
                          /\ calls[i].outcome = "returned"
                                => /\ ret = "failure"
                                   /\ failed = local.precheckResults.message
                          /\ calls[i].outcome = "threw" => ret = ReturnedUndefined
                    /\ state["bypass"] = "true"
                    /\ failed # NotFailed

C8_Witness ==
    /\ entry = "run"
    /\ ~local.precheckResults.status
    /\ local.precheckResults.message = "reviews are required"
    /\ local.precheckResults.ref = "feature"
    /\ ret = "failure"
    /\ failed = "reviews are required"

(***************************************************************************)
(* C9  When environment resolution finds no match, the user is sent one    *)
(* warning message that enumerates the allowed environment list, bypass is *)
(* saved as 'true' and run() returns 'safe-exit': the run is not marked    *)
(* failed and no precheck, deployment creation or deployment-status call   *)
(* is made.                                                                *)
(***************************************************************************)
C9_NoMatchSafeExit ==
    (entry = "run" /\ warned)
        => /\ ret = "safe-exit"
           /\ failed = NotFailed
           /\ state["bypass"] = "true"
           /\ Cardinality(CallsOf("actionStatus")) = 1
           /\ \A i \in CallsOf("actionStatus") :
                 \E k \in 1..Len(calls[i].message) :
                    calls[i].message[k]
                        = Text(Join(Sanitized(cfg.environment_targets), ","))
           /\ CallsOf("prechecks") = {}
           /\ CallsOf("createDeployment") = {}
           /\ CallsOf("createDeploymentStatus") = {}

(***************************************************************************)
(* C10  When createDeployment returns no id and a message that contains    *)
(* 'Auto-merged', run() sends the warning through one actionStatus call,   *)
(* saves bypass='true' and returns 'safe-exit', never sets in_progress and *)
(* is not marked failed; in every other case where createDeployment        *)
(* returns, run() goes on to set in_progress.                              *)
(***************************************************************************)
C10_MergeRequiredOrInProgress ==
    (/\ entry = "run"
     /\ \E i \in CallsOf("createDeployment") : calls[i].outcome = "returned")
        => IF /\ local.createDeploy.id = Undefined
              /\ local.createDeploy.hasMessage
              /\ Includes(local.createDeploy.message, AutoMergedMarker)
           THEN /\ StatusCalls({"in_progress"}) = {}
                /\ pc \in {"mergeStatus", "done"}
                /\ pc = "done"
                      => /\ Cardinality(CallsOf("actionStatus")) = 1
                         /\ \A i \in CallsOf("actionStatus") :
                               /\ calls[i].message = MergeMessage(local.createDeploy)
                               /\ calls[i].outcome = "returned"
                                     => /\ ret = "safe-exit"
                                        /\ failed = NotFailed
                                        /\ state["bypass"] = "true"
           ELSE \/ pc = "inProgress"
                \/ StatusCalls({"in_progress"}) # {}

(***************************************************************************)
(* C11  In merge deploy mode run() calls the identical-commit check once,  *)
(* saves bypass='true' whatever becomes of the check, and returns          *)
(* 'success - merge deploy mode': the comment body is not read, nothing is *)
(* output, the run is not marked failed, and no other call (context or     *)
(* trigger check, reaction, permissions, prechecks, comment, deployment,   *)
(* deployment status) is made.                                             *)
(***************************************************************************)
C11_MergeDeployShortCircuit ==
    (entry = "run" /\ cfg.mergeDeployMode)
        => /\ pc \in {"start", "done"}
           /\ local = InitLocal
           /\ output = [k \in OutputKeys |-> Unset]
           /\ failed = NotFailed
           /\ ~warned
           /\ pc = "start" => calls = <<>>
           /\ pc = "done"
                 => /\ ret = "success - merge deploy mode"
                    /\ state["bypass"] = "true"
                    /\ Len(calls) = 1
                    /\ calls[1].op = "identicalCommitCheck"
                    /\ calls[1].environment = Text(environment)

\* the check failed and the event carried no comment: run() still returned
C11_Witness ==
    /\ entry = "run"
    /\ cfg.mergeDeployMode
    /\ ~cfg.commentPresent
    /\ ret = "success - merge deploy mode"
    /\ calls[1].outcome = "rejected"
    /\ state["bypass"] = "true"

\* the positions of the calls run() made
RunCalls ==
    {i \in 1..Len(calls) : pd.pc \in {"idle", "skipped"} \/ i <= pd.base}

\* the external calls run() awaits
AwaitedOps ==
    {"contextCheck", "triggerCheck", "reactEmote", "validPermissions",
     "actionStatus", "help", "prechecks", "createComment", "createDeployment",
     "createDeploymentStatus"}

C12_FirstCallWitness ==
    /\ entry = "run"
    /\ Len(calls) = 1
    /\ calls[1].op = "contextCheck"
    /\ calls[1].outcome = "threw"
    /\ ret = ReturnedUndefined

\* both triggerCheck calls have answered
Classified ==
    Cardinality({i \in CallsOf("triggerCheck") : calls[i].outcome = "returned"}) = 2

(***************************************************************************)
(* C13  When neither the deploy trigger nor the help trigger matches,      *)
(* run() returns 'safe-exit' and the run is not marked failed: the output  *)
(* triggered is 'false', bypass is saved as 'true', no type is output, and *)
(* no reaction, comment, environment resolution, precheck or deployment    *)
(* call is made. When exactly one trigger matches, the output triggered is *)
(* 'true' and the output type is 'deploy' or 'help' accordingly.           *)
(***************************************************************************)
C13_NoTriggerSafeExit ==
    (entry = "run" /\ Classified) =>
        /\ (~local.isDeploy /\ ~local.isHelp)
              => /\ pc = "done"
                 /\ ret = "safe-exit"
                 /\ failed = NotFailed
                 /\ output["triggered"] = "false"
                 /\ output["type"] = Unset
                 /\ state["bypass"] = "true"
                 /\ \A i \in 1..Len(calls) :
                       calls[i].op \in {"contextCheck", "triggerCheck"}
                 /\ ~local.environmentDetected
                 /\ ~warned
                 /\ output["environment"] = Unset
        /\ (local.isDeploy /\ ~local.isHelp)
              => output["triggered"] = "true" /\ output["type"] = "deploy"
        /\ (~local.isDeploy /\ local.isHelp)
              => output["triggered"] = "true" /\ output["type"] = "help"

C13_Witness ==
    /\ entry = "run"
    /\ Classified
    /\ ~local.isDeploy /\ ~local.isHelp
    /\ ret = "safe-exit"
    /\ output["triggered"] = "false"
    /\ state["bypass"] = "true"

\* the help trigger alone
C13_HelpWitness ==
    /\ entry = "run"
    /\ Classified
    /\ ~local.isDeploy /\ local.isHelp
    /\ output["type"] = "help"
    /\ ret = "safe-exit"

\* the entries of the configured environment list
ConfiguredTargets ==
    {Sanitized(cfg.environment_targets)[i] :
         i \in 1..Len(Sanitized(cfg.environment_targets))}

\* the resolver was called directly and has returned
Resolved ==
    entry = "onDeploymentChecks" /\ pc = "returned"

(***************************************************************************)
(* C14  For every configured environment list and every name e in it, the  *)
(* body that is exactly '<trigger> to <e>' resolves to e, and so does the  *)
(* bare form '<trigger> <e>': never to another entry of the list, to the   *)
(* default or to no environment.                                           *)
(***************************************************************************)
C14_NamedTargetResolves ==
    Resolved =>
        \A e \in ConfiguredTargets \ {<<>>} :
            cfg.body \in {trigger \o <<" ">> \o ToPrefix \o e,
                          trigger \o <<" ">> \o e}
                => ret = [found |-> TRUE, value |-> e]

(***************************************************************************)
(* C15  For every configured environment list, a blank one and one with an *)
(* empty entry included, and every default environment: the body that is   *)
(* exactly the trigger, '<trigger> <noop trigger>' or '<trigger> <stable   *)
(* branch>' resolves to the configured default environment.                *)
(***************************************************************************)
C15_TriggerAloneResolvesDefault ==
    (/\ Resolved
     /\ cfg.body \in {trigger, trigger \o <<" ">> \o noop_trigger,
                      trigger \o <<" ">> \o cfg.stable_branch})
        => ret = [found |-> TRUE, value |-> cfg.environment]

\* the lists that hold the entries of `list` in another order
Reorderings(list) ==
    {[i \in 1..Len(list) |-> list[f[i]]] : f \in Permutations(1..Len(list))}

(***************************************************************************)
(* C16  Environment resolution does not depend on the order of the         *)
(* configured list: for every body, every list that holds the same entries *)
(* in another order resolves to the same environment name, or to no        *)
(* environment when the configured list does.                              *)
(***************************************************************************)
C16_OrderIndependent ==
    Resolved =>
        \A other \in Reorderings(Sanitized(cfg.environment_targets)) :
            onDeploymentChecks(other, cfg.body, trigger, noop_trigger,
                               cfg.stable_branch, cfg.environment) = ret

\* the entries of each environment_targets input of a run
TargetsOf ==
    [targets \in EnvironmentTargetsInputs |->
        {Text(Sanitized(targets)[i]) : i \in 1..Len(Sanitized(targets))}]

\* the names resolution may return in a run: the entries of the configured
\* list and the default environment
AllowedNames ==
    TargetsOf[cfg.environment_targets] \cup {Text(environment)}

(***************************************************************************)
(* C17  In a run, environment resolution yields no environment or a name   *)
(* that is an entry of the configured environment list or the configured   *)
(* default; and the environment run() saves and outputs, and hands to      *)
(* prechecks, to createDeployment and to the in_progress status, is that   *)
(* resolved name. Without a resolved name nothing is saved and none of     *)
(* these calls is made.                                                    *)
(***************************************************************************)
C17_ResolvedNameUsed ==
    entry = "run" =>
        /\ local.environmentDetected
              => /\ local.environment \in AllowedNames
                 /\ state["environment"] \in {Unset, local.environment}
                 /\ output["environment"] = state["environment"]
                 /\ \A i \in RunCalls :
                       calls[i].op \in {"prechecks", "createDeployment",
                                        "createDeploymentStatus"}
                          => /\ calls[i].environment = local.environment
                             /\ state["environment"] = local.environment
        /\ ~local.environmentDetected
              => /\ state["environment"] = Unset
                 /\ output["environment"] = Unset
                 /\ CallsOf("prechecks") = {}
                 /\ CallsOf("createDeployment") = {}
                 /\ CallsOf("createDeploymentStatus") = {}

C17_Witness ==
    /\ entry = "run"
    /\ cfg.environment_targets = TargetsSpaced
    /\ local.body = BodyToStaging
    /\ local.environment = "staging"
    /\ state["environment"] = "staging"
    /\ \E i \in CallsOf("createDeployment") : calls[i].environment = "staging"
    /\ \E i \in CallsOf("prechecks") : calls[i].environment = "staging"
    /\ output["environment"] = "staging"

\* the default environment, for a body that names none
C17_DefaultWitness ==
    /\ entry = "run"
    /\ local.body = BodyNoop
    /\ local.environment = "production"
    /\ \E i \in CallsOf("prechecks") : calls[i].environment = "production"

\* findEnvironmentUrl was called directly and has ended
UrlLookupEnded ==
    entry = "findEnvironmentUrl" /\ pc \in {"returned", "threw"}

\* the pairs of the environment_urls input, in input order
GivenPairs ==
    Split(Trim(cfg.environment_urls), ",")

\* the environment name of the pair at position i
PairName(i) ==
    Split(Trim(GivenPairs[i]), "|")[1]

\* the pair at position i has a '|' and so a value
PairHasValue(i) ==
    Len(Split(Trim(GivenPairs[i]), "|")) >= 2

PairValue(i) ==
    Split(Trim(GivenPairs[i]), "|")[2]

\* the pairs for the requested environment whose value is an http(s) url
UrlPairsOfEnvironment ==
    {i \in 1..Len(GivenPairs) :
        /\ PairName(i) = cfg.environment
        /\ PairHasValue(i)
        /\ MatchesHttpSchema(PairValue(i))}

\* the pairs for the requested environment whose value is 'disabled'
DisabledPairsOfEnvironment ==
    {i \in 1..Len(GivenPairs) :
        /\ PairName(i) = cfg.environment
        /\ PairHasValue(i)
        /\ PairValue(i) = DisabledLiteral}

\* findEnvironmentUrl returned null
ReturnedNull ==
    pc = "returned" /\ ret.kind \in {"blank", "disabled", "none"}

(***************************************************************************)
(* C18  findEnvironmentUrl never throws, whatever the environment and the  *)
(* environment_urls input (blank, pairs without '|', pairs with an empty   *)
(* url, urls of another scheme); a pair for the environment whose url does *)
(* not start with http:// or https:// is skipped, so that a valid pair for *)
(* the environment that follows it (with no 'disabled' pair before) is the *)
(* one returned.                                                           *)
(***************************************************************************)
C18_LookupNeverThrows ==
    UrlLookupEnded =>
        /\ pc = "returned"
        /\ \A i \in UrlPairsOfEnvironment :
              (/\ \A j \in UrlPairsOfEnvironment : i <= j
               /\ \A j \in DisabledPairsOfEnvironment : i < j)
                 => ret = [kind |-> "url", url |-> PairValue(i)]

(***************************************************************************)
(* C19  findEnvironmentUrl returns the outcome of the first pair, in input *)
(* order, whose name is the requested environment and whose value is       *)
(* 'disabled' (null) or starts with http:// or https:// (that url), and    *)
(* null when the input is blank or holds no such pair: a result that is    *)
(* not null starts with http:// or https://, and a 'disabled' pair before  *)
(* every valid pair of the environment gives null.                         *)
(***************************************************************************)
C19_FirstDecisivePair ==
    UrlLookupEnded =>
        LET decisive == UrlPairsOfEnvironment \cup DisabledPairsOfEnvironment
        IN  /\ (Trim(cfg.environment_urls) = <<>> \/ decisive = {}) => ReturnedNull
            /\ \A i \in decisive :
                  (\A j \in decisive : i <= j)
                     => IF i \in DisabledPairsOfEnvironment
                        THEN ReturnedNull
                        ELSE /\ pc = "returned"
                             /\ ret = [kind |-> "url", url |-> PairValue(i)]
            /\ (pc = "returned" /\ ret.kind = "url") => MatchesHttpSchema(ret.url)

\* the message ends with the environment url line
HasUrlLine(message) ==
    \E k \in 1..Len(message) : message[k] = "\n\n> **Environment URL:** ["

\* an environment url that is absent or blank
BlankUrls ==
    {Undefined, "", " "}

\* the four conditions of the environment url line
UrlLineDue ==
    /\ pd.environment_url \notin BlankUrls
    /\ pd.status = "success"
    /\ pd.noop # "true"
    /\ pd.environment_url_in_comment

(***************************************************************************)
(* C20  The completion message ends with the environment url line if and   *)
(* only if the url is present and not blank, the status is exactly         *)
(* 'success', noop is not 'true' and environment_url_in_comment is true;   *)
(* with any one of the four negated there is no url line.                  *)
(***************************************************************************)
C20_UrlLineIffAllFour ==
    \A i \in PostDeployCalls :
        calls[i].op = "actionStatus"
           => /\ HasUrlLine(calls[i].message) <=> UrlLineDue
              /\ HasUrlLine(calls[i].message)
                    => /\ calls[i].message[Len(calls[i].message)] = ")"
                       /\ calls[i].message[Len(calls[i].message) - 1]
                              = pd.environment_url

C20_Witness ==
    /\ UrlLineDue
    /\ \E i \in PostDeployCalls :
          calls[i].op = "actionStatus" /\ HasUrlLine(calls[i].message)

\* one condition negated, the other three held: no url line
C20_BlankUrlWitness ==
    /\ pd.environment_url = " "
    /\ pd.status = "success" /\ pd.noop = "false" /\ pd.environment_url_in_comment
    /\ \E i \in PostDeployCalls :
          calls[i].op = "actionStatus" /\ ~HasUrlLine(calls[i].message)

C20_FailureWitness ==
    /\ pd.environment_url \notin BlankUrls
    /\ pd.status = "failure" /\ pd.noop = "false" /\ pd.environment_url_in_comment
    /\ \E i \in PostDeployCalls :
          calls[i].op = "actionStatus" /\ ~HasUrlLine(calls[i].message)

C20_NoopWitness ==
    /\ pd.environment_url \notin BlankUrls
    /\ pd.status = "success" /\ pd.noop = "true" /\ pd.environment_url_in_comment
    /\ \E i \in PostDeployCalls :
          calls[i].op = "actionStatus" /\ ~HasUrlLine(calls[i].message)

C20_NotOptedInWitness ==
    /\ pd.environment_url \notin BlankUrls
    /\ pd.status = "success" /\ pd.noop = "false" /\ ~pd.environment_url_in_comment
    /\ \E i \in PostDeployCalls :
          calls[i].op = "actionStatus" /\ ~HasUrlLine(calls[i].message)

\* the parts of the message of the call at position i
MessageParts(i) ==
    {calls[i].message[k] : k \in 1..Len(calls[i].message)}

\* the inputs of postDeploy pass its checks
ValidInputs ==
    CoreInputsGiven /\ (pd.noop = "true" \/ DeploymentInputsGiven)

(***************************************************************************)
(* C21  With valid inputs postDeploy formats its message for every status  *)
(* without throwing (it reaches the comment update), and the message is    *)
(* one of three: for 'success' the 'successfully deployed' text with the   *)
(* check mark, for 'failure' the 'had a failure' text with the cross, for  *)
(* every other status the 'status is unknown' warning with the warning     *)
(* sign.                                                                   *)
(***************************************************************************)
C21_StatusSelectsMessage ==
    /\ (PostDeployChecked /\ ValidInputs)
          => \/ pd.pc = "actionStatus"
             \/ \E i \in PostDeployCalls : calls[i].op = "actionStatus"
    /\ \A i \in PostDeployCalls :
          calls[i].op = "actionStatus"
             => /\ calls[i].message[1] = "### Deployment Results "
                /\ calls[i].message[2]
                      = (IF pd.status = "success" THEN "[check]"
                         ELSE IF pd.status = "failure" THEN "[cross]"
                         ELSE "[warning]")
                /\ "** successfully" \in MessageParts(i) <=> pd.status = "success"
                /\ "** had a failure when" \in MessageParts(i)
                      <=> pd.status = "failure"
                /\ "deployment status is unknown, please use caution"
                         \in MessageParts(i)
                      <=> pd.status \notin {"success", "failure"}

C21_Witness ==
    /\ ValidInputs
    /\ pd.status = "cancelled"
    /\ \E i \in PostDeployCalls :
          /\ calls[i].op = "actionStatus"
          /\ calls[i].message[2] = "[warning]"
          /\ "Warning:" \in MessageParts(i)

C21_FailureWitness ==
    /\ ValidInputs
    /\ pd.status = "failure"
    /\ \E i \in PostDeployCalls :
          calls[i].op = "actionStatus" /\ calls[i].message[2] = "[cross]"

NewlineEscape ==
    <<"\\", "n">>

TabEscape ==
    <<"\\", "t">>

\* one pass over the text, left to right: an escape gives its character,
\* every other character is kept
RECURSIVE UnescapedOnce(_)
UnescapedOnce(s) ==
    IF s = <<>> THEN <<>>
    ELSE IF MatchAt(NewlineEscape, s, 1)
    THEN <<"\n">> \o UnescapedOnce(SubSeq(s, 3, Len(s)))
    ELSE IF MatchAt(TabEscape, s, 1)
    THEN <<"\t">> \o UnescapedOnce(SubSeq(s, 3, Len(s)))
    ELSE <<Head(s)>> \o UnescapedOnce(Tail(s))

\* the positions where an escape begins
EscapesIn(s) ==
    {i \in 1..Len(s) : MatchAt(NewlineEscape, s, i) \/ MatchAt(TabEscape, s, i)}

\* the unescaping was called directly and has returned
Unescaped ==
    entry = "customMessageFmt" /\ pc = "returned"

(***************************************************************************)
(* C22  In a custom message every backslash-n becomes one newline and      *)
(* every backslash-t one tab, each exactly once: the result is what one    *)
(* pass over the text gives, it is shorter by one character for each       *)
(* escape, it holds no escape any more (unescaping it again changes        *)
(* nothing), and a text without an escape is unchanged.                    *)
(***************************************************************************)
C22_UnescapedExactlyOnce ==
    Unescaped =>
        /\ ret = UnescapedOnce(cfg.customMessage)
        /\ Len(ret) = Len(cfg.customMessage) - Cardinality(EscapesIn(cfg.customMessage))
        /\ EscapesIn(ret) = {}
        /\ customMessageFmt(ret) = ret
        /\ EscapesIn(cfg.customMessage) = {} => ret = cfg.customMessage

\* two newline escapes
C22_Witness ==
    /\ Unescaped
    /\ cfg.customMessage = <<"\\", "n", "\\", "n">>
    /\ ret = <<"\n", "\n">>

\* a backslash before an escape, and a letter after a newline escape that
\* the tab pass leaves alone
C22_BackslashWitness ==
    /\ Unescaped
    /\ cfg.customMessage = <<"\\", "\\", "n", "t">>
    /\ ret = <<"\\", "\n", "t">>

\* a key of the state store was saved with a value that is not empty
Saved(k) ==
    state[k] \notin {Unset, ""}

(***************************************************************************)
(* C23  Whenever run() returns 'success' or 'success - noop', bypass is    *)
(* not saved and the saved state passes the input checks of the completion *)
(* phase: comment_id, ref and noop are saved and not empty, and with noop  *)
(* 'false' so are deployment_id and environment; run() does not return     *)
(* 'success' after a createDeployment answer without an id.                *)
(***************************************************************************)
C23_SavedStatePassesChecks ==
    (RunEnded /\ ret \in {"success", "success - noop"})
        => /\ state["bypass"] = Unset
           /\ Saved("comment_id")
           /\ Saved("ref")
           /\ state["noop"] = (IF ret = "success" THEN "false" ELSE "true")
           /\ ret = "success"
                 => /\ Saved("deployment_id")
                    /\ Saved("environment")
                    /\ local.createDeploy.id # Undefined

\* the comment update of postDeploy and its deployment-status transition
PostDeployUpdates ==
    {i \in PostDeployCalls : calls[i].op = "actionStatus"}

PostDeployTransitions ==
    {i \in PostDeployCalls : calls[i].op = "createDeploymentStatus"}

(***************************************************************************)
(* C24  In postDeploy the status comment update comes before the           *)
(* deployment-status transition: createDeploymentStatus is called only     *)
(* after actionStatus has returned; when the comment update throws,        *)
(* postDeploy ends with that error and issues no transition, so that after *)
(* a run the deployment record keeps the status in_progress.               *)
(***************************************************************************)
C24_CommentBeforeTransition ==
    /\ \A i \in PostDeployTransitions :
          \E j \in PostDeployUpdates : j < i /\ calls[j].outcome = "returned"
    /\ pd.pc = "deploymentStatus"
          => \E j \in PostDeployUpdates : calls[j].outcome = "returned"
    /\ \A j \in PostDeployUpdates :
          calls[j].outcome = "threw"
             => /\ pd.pc = "threw"
                /\ pd.error = PlatformError
                /\ PostDeployTransitions = {}
                /\ j = Len(calls)
                /\ StatusCalls(TerminalStatuses) = {}
                /\ (entry = "run" /\ ret = "success")
                      => \E k \in StatusCalls({"in_progress"}) :
                            calls[k].outcome = "returned"

C24_Witness ==
    /\ entry = "run"
    /\ ret = "success"
    /\ pd.noop = "false"
    /\ pd.pc = "threw"
    /\ \E j \in PostDeployUpdates : calls[j].outcome = "threw"
    /\ \E k \in StatusCalls({"in_progress"}) : calls[k].outcome = "returned"
    /\ PostDeployTransitions = {}

\* the comment update returned and the transition followed it
C24_OrderWitness ==
    /\ entry = "postDeploy"
    /\ \E j \in PostDeployUpdates, i \in PostDeployTransitions :
          j < i /\ calls[j].outcome = "returned" /\ calls[i].outcome = "returned"

====
